---- MODULE Spec2Model ----
(***************************************************************************)
(* Model of fastdfs-5.01/common/ioevent.c: the IOEventPoller facade over   *)
(* epoll, kqueue and Solaris event ports, together with the part of the    *)
(* kernel each system call of ioevent.c acts on.                           *)
(*                                                                         *)
(* The backend is chosen at build time (#if IOEVENT_USE_EPOLL / _KQUEUE /  *)
(* _PORT), so it is drawn once in Init and never changes.                  *)
(* Event masks are sets of flag names: e | extra is set union, e & F is    *)
(* membership of F.                                                        *)
(***************************************************************************)
EXTENDS Integers, Sequences, FiniteSets, TLC

\* ------------------------------------------------------------------ bounds
MaxFd == 2
MaxData == 2
MaxSize == 2
MaxCalls == 2
MaxDestroys == 2

\* ------------------------------------------------------------- vocabulary
Backends == {"epoll", "kqueue", "port"}
Dirs == {"READ", "WRITE"}
ExtraFlagSets == {{}, {"ET"}}
Timeouts == {0, 1500}
Fds == {3 + i : i \in 1..MaxFd}
Data == 1..MaxData
Sizes == 1..MaxSize

\* errno values of <errno.h> (Linux numbering) used by the model
OsErrno(name) ==
  CASE name = "ENOENT" -> 2
    [] name = "EINTR"  -> 4
    [] name = "EBADF"  -> 9
    [] name = "EAGAIN" -> 11
    [] name = "ENOMEM" -> 12
    [] name = "EEXIST" -> 17
    [] name = "EMFILE" -> 24
    [] name = "ETIME"  -> 62

ENOMEM == OsErrno("ENOMEM")
EINTR == OsErrno("EINTR")
EAGAIN == OsErrno("EAGAIN")
ETIME == OsErrno("ETIME")
EBADF == OsErrno("EBADF")
ENOENT == OsErrno("ENOENT")
EEXIST == OsErrno("EEXIST")
EMFILE == OsErrno("EMFILE")

\* the errno cases of the switch in ioevent_poll (event ports)
TransientErrnos == {EINTR, EAGAIN, ETIME}

VARIABLES
  backend,       \* which #if branch was compiled
  pc,            \* "new": before ioevent_init; "inited": ioevent_init returned
  size,          \* ioevent->size
  timeout,       \* ioevent->timeout (int for epoll, struct timespec otherwise)
  extra_events,  \* ioevent->extra_events
  poll_fd,       \* ioevent->poll_fd
  events,        \* ioevent->events: NULL or the address of the buffer
  slots,         \* the slots of the buffer filled by the last ioevent_poll
  errno,         \* the C errno
  handleOpen,    \* kernel: the backend handle is an open descriptor
  handleMade,    \* kernel: a backend handle was created for this poller
  bufLive,       \* heap: the buffer is allocated and not freed
  closeCount,    \* number of close() calls made on the backend handle
  freeCount,     \* number of free() calls made on the buffer
  kern,          \* kernel: the registrations of each descriptor
  fdOpen,        \* kernel: which watched descriptors are open
  ready,         \* the ready records the kernel held at the last poll
  lastOp,        \* the last step: the ioevent_* function called, or "close"
  result,        \* its return value
  sysret,        \* what the system call it made returned (0 when it made none)
  initRet,       \* what ioevent_init returned
  submitted,     \* the change entries it handed to the kernel
  delivered,     \* the number of events the kernel wrote in the last poll
  bound,         \* user data of the last successful attach/modify, per fd
  detached,      \* fd was detached successfully and not attached since
  destroys,      \* number of ioevent_destroy calls
  ncalls,        \* number of attach/modify/detach calls made
  call,          \* the last call: its fd, e and data arguments, the errno
                 \* its failing system call set, and nget after port_getn
  conv,          \* kqueue_ev_convert: its arguments and its return value
  rdlist         \* kernel: the ready list of the backend handle, in order

vars == <<backend, pc, size, timeout, extra_events, poll_fd, events, slots,
          errno, handleOpen, bufLive, closeCount, freeCount, kern, fdOpen,
          ready, lastOp, result, sysret, initRet, submitted, delivered,
          bound, detached, destroys, ncalls, handleMade, call, conv,
          rdlist>>

pollerVars == <<size, timeout, extra_events, poll_fd, events>>
auxVars == <<conv, rdlist>>
resVars == <<handleOpen, bufLive, closeCount, freeCount>>
envVars == <<fdOpen, ready>>
ioVars == <<backend, pc, pollerVars, resVars, envVars, slots, errno,
            handleMade, kern, lastOp, result, sysret, initRet, submitted,
            delivered, bound, detached, destroys, ncalls, call>>

\* ------------------------------------------------------------ ioevent_init
\* ioevent->timeout as ioevent_init stores it
TimeoutField(b, t) ==
  IF b = "epoll" THEN t
  ELSE [tv_sec |-> t \div 1000, tv_nsec |-> 1000000 * (t % 1000)]

\* "return errno != 0 ? errno : ENOMEM" when events == NULL, else "return 0"
\* (and, for comparison, an ioevent_init that returns the marker -1)
InitResult_Marker(ev, err) ==
  IF ev = "NULL" THEN -1 ELSE 0
InitResult(ev, err) ==
  IF ev = "NULL" THEN (IF err # 0 THEN err ELSE ENOMEM) ELSE 0

\* the kernel's registrations when nothing is registered
NoKnote == [on |-> FALSE, flags |-> {}, udata |-> 0]
NoAssoc == [reg |-> FALSE, events |-> {}, data |-> 0]
EmptyKern(b) ==
  IF b = "kqueue" THEN [f \in Fds |-> [d \in Dirs |-> NoKnote]]
  ELSE [f \in Fds |-> NoAssoc]

\* no call made yet, and kqueue_ev_convert not called
NoCall == [fd |-> 0, e |-> {}, data |-> 0, oserr |-> 0, nget |-> 0]
NoConv == [pc |-> "idle", event |-> "EVFILT_READ", flags |-> {}, r |-> {}]

\* the state before ioevent_init is called
NewPoller ==
  /\ pc = "new"
  /\ size = 0
  /\ timeout = 0
  /\ extra_events = {}
  /\ poll_fd = -1
  /\ events = "NULL"
  /\ slots = {}
  /\ errno = 0
  /\ handleOpen = FALSE
  /\ bufLive = FALSE
  /\ closeCount = 0
  /\ freeCount = 0
  /\ kern = EmptyKern(backend)
  /\ fdOpen = [f \in Fds |-> TRUE]
  /\ ready = {}
  /\ lastOp = "none"
  /\ result = 0
  /\ initRet = 0
  /\ sysret = 0
  /\ handleMade = FALSE
  /\ submitted = <<>>
  /\ delivered = 0
  /\ bound = [f \in Fds |-> 0]
  /\ detached = [f \in Fds |-> FALSE]
  /\ destroys = 0
  /\ ncalls = 0
  /\ call = NoCall

Init ==
  /\ backend \in Backends
  /\ NewPoller
  /\ conv = NoConv
  /\ rdlist = <<>>

\* ioevent_init(ioevent, sz, t, x). h is what epoll_create / kqueue /
\* port_create returns, m whether malloc succeeds, e whether a failing malloc
\* sets errno.
ioevent_init(sz, t, x, h, m, e) ==
  /\ pc = "new"
  /\ pc' = "inited"
  /\ size' = sz
  /\ extra_events' = x
  /\ timeout' = TimeoutField(backend, t)
  /\ poll_fd' = h
  /\ handleOpen' = (h >= 0)
  /\ handleMade' = (h >= 0)
  /\ sysret' = h
  /\ events' = IF m THEN "buf" ELSE "NULL"
  /\ bufLive' = m
  /\ LET e1 == IF h < 0 THEN EMFILE ELSE errno
         e2 == IF ~m /\ e THEN ENOMEM ELSE e1
     IN /\ errno' = e2
        /\ result' = InitResult(events', e2)
        /\ initRet' = InitResult(events', e2)
        /\ call' = [NoCall EXCEPT
                      !.oserr = IF ~m /\ e THEN ENOMEM
                                ELSE IF h < 0 THEN EMFILE ELSE 0]
  /\ lastOp' = "init"
  /\ UNCHANGED <<backend, auxVars, slots, closeCount, freeCount, kern,
                 fdOpen, ready,
                 submitted, delivered, bound, detached, destroys, ncalls>>

\* --------------------------------------------------------- ioevent_destroy
\* "if (ioevent->events != NULL)"
FreeGuard == events # "NULL"

\* "ioevent->events = NULL;" after free (and, for comparison, a destroy that
\* leaves the freed pointer in place)
EventsAfterFree_Dangling == events
EventsAfterFree == "NULL"

\* "if (ioevent->poll_fd >=0)"
CloseGuard == poll_fd >= 0

\* "ioevent->poll_fd = -1;" after close
PollFdAfterClose == -1

\* Closing the backend handle discards every registration made through it,
\* and freeing the buffer its slots.
ioevent_destroy ==
  /\ pc = "inited"
  /\ destroys < MaxDestroys
  /\ destroys' = destroys + 1
  /\ IF FreeGuard
       THEN /\ freeCount' = freeCount + 1
            /\ bufLive' = FALSE
            /\ events' = EventsAfterFree
            /\ slots' = {}
       ELSE UNCHANGED <<freeCount, bufLive, events, slots>>
  /\ IF CloseGuard
       THEN /\ closeCount' = closeCount + 1
            /\ handleOpen' = FALSE
            /\ poll_fd' = PollFdAfterClose
            /\ kern' = EmptyKern(backend)
            /\ bound' = [f \in Fds |-> 0]
            /\ detached' = [f \in Fds |-> FALSE]
       ELSE UNCHANGED <<closeCount, handleOpen, poll_fd, kern, bound, detached>>
  /\ lastOp' = "destroy"
  /\ result' = 0
  /\ submitted' = <<>>
  /\ delivered' = 0
  /\ ready' = {}
  /\ sysret' = 0
  /\ call' = NoCall
  /\ UNCHANGED <<backend, auxVars, pc, size, timeout, extra_events, errno,
                 fdOpen, initRet, ncalls, handleMade>>

\* ------------------------------------------------- the change entries built
\* EV_SET(&ev[n++], fd, filter, EV_ADD | ioevent->extra_events, 0, 0, data)
KevAdd(fd, filter, x, data) ==
  [ident |-> fd, filter |-> filter, flags |-> {"EV_ADD"} \cup x, udata |-> data]

\* EV_SET(&ev[n++], fd, filter, EV_DELETE, 0, 0, data)
KevDelete(fd, filter, data) ==
  [ident |-> fd, filter |-> filter, flags |-> {"EV_DELETE"}, udata |-> data]

\* the argument port_associate gets as the events of the association
PortEvents(e, x) == e

\* what ioevent_attach hands to epoll_ctl / kevent / port_associate (and,
\* for comparison, a kqueue attach that deletes the directions not asked for,
\* as ioevent_modify does)
AttachEntries_DeleteUnrequested(b, fd, e, data, x) ==
  CASE b = "epoll" ->
         <<[op |-> "EPOLL_CTL_ADD", fd |-> fd, events |-> e \cup x,
            data |-> data]>>
    [] b = "kqueue" ->
         <<IF "READ" \in e THEN KevAdd(fd, "READ", x, data)
           ELSE KevDelete(fd, "READ", data),
           IF "WRITE" \in e THEN KevAdd(fd, "WRITE", x, data)
           ELSE KevDelete(fd, "WRITE", data)>>
    [] b = "port" ->
         <<[op |-> "port_associate", fd |-> fd, events |-> PortEvents(e, x),
            data |-> data]>>
AttachEntries(b, fd, e, data, x) ==
  CASE b = "epoll" ->
         <<[op |-> "EPOLL_CTL_ADD", fd |-> fd, events |-> e \cup x,
            data |-> data]>>
    [] b = "kqueue" ->
         (IF "READ" \in e THEN <<KevAdd(fd, "READ", x, data)>> ELSE <<>>)
         \o (IF "WRITE" \in e THEN <<KevAdd(fd, "WRITE", x, data)>> ELSE <<>>)
    [] b = "port" ->
         <<[op |-> "port_associate", fd |-> fd, events |-> PortEvents(e, x),
            data |-> data]>>

\* what ioevent_modify hands to epoll_ctl / kevent / port_associate
ModifyEntries(b, fd, e, data, x) ==
  CASE b = "epoll" ->
         <<[op |-> "EPOLL_CTL_MOD", fd |-> fd, events |-> e \cup x,
            data |-> data]>>
    [] b = "kqueue" ->
         <<IF "READ" \in e THEN KevAdd(fd, "READ", x, data)
                           ELSE KevDelete(fd, "READ", data),
           IF "WRITE" \in e THEN KevAdd(fd, "WRITE", x, data)
                            ELSE KevDelete(fd, "WRITE", data)>>
    [] b = "port" ->
         <<[op |-> "port_associate", fd |-> fd, events |-> PortEvents(e, x),
            data |-> data]>>

\* what ioevent_detach hands to epoll_ctl / port_dissociate; the kqueue
\* branch makes no system call
DetachEntries(b, fd) ==
  CASE b = "epoll" ->
         <<[op |-> "EPOLL_CTL_DEL", fd |-> fd, events |-> {}, data |-> 0]>>
    [] b = "kqueue" -> <<>>
    [] b = "port" ->
         <<[op |-> "port_dissociate", fd |-> fd, events |-> {}, data |-> 0]>>

\* ------------------------------------------------ the kernel under the calls
\* A system call's outcome: its return value, the errno it sets (0: errno is
\* left alone) and the kernel's registrations afterwards.
Failed(err, k) == [ret |-> -1, err |-> err, kern |-> k]
Done(k) == [ret |-> 0, err |-> 0, kern |-> k]

\* epoll_ctl(poll_fd, op, fd, &ev); hOK: poll_fd is an open epoll handle
EpollCtl(k, open, hOK, c) ==
  IF ~hOK \/ ~open[c.fd] THEN Failed(EBADF, k)
  ELSE CASE c.op = "EPOLL_CTL_ADD" ->
              IF k[c.fd].reg THEN Failed(EEXIST, k)
              ELSE Done([k EXCEPT ![c.fd] =
                     [reg |-> TRUE, events |-> c.events, data |-> c.data]])
         [] c.op = "EPOLL_CTL_MOD" ->
              IF ~k[c.fd].reg THEN Failed(ENOENT, k)
              ELSE Done([k EXCEPT ![c.fd] =
                     [reg |-> TRUE, events |-> c.events, data |-> c.data]])
         [] c.op = "EPOLL_CTL_DEL" ->
              IF ~k[c.fd].reg THEN Failed(ENOENT, k)
              ELSE Done([k EXCEPT ![c.fd] = NoAssoc])

\* port_associate / port_dissociate(poll_fd, PORT_SOURCE_FD, fd, ...):
\* associating an associated descriptor replaces its events and user data
PortCtl(k, open, hOK, c) ==
  IF ~hOK \/ ~open[c.fd] THEN Failed(EBADF, k)
  ELSE CASE c.op = "port_associate" ->
              Done([k EXCEPT ![c.fd] =
                     [reg |-> TRUE, events |-> c.events, data |-> c.data]])
         [] c.op = "port_dissociate" ->
              IF ~k[c.fd].reg THEN Failed(ENOENT, k)
              ELSE Done([k EXCEPT ![c.fd] = NoAssoc])

\* kevent(poll_fd, ev, n, NULL, 0, NULL): the changes are applied in order;
\* with no room in the event list the first failing change ends the call with
\* -1 and the changes after it are not applied. EV_ADD of an existing filter
\* replaces its flags and udata; EV_DELETE of a missing one fails with ENOENT.
RECURSIVE KeventChanges(_, _, _, _)
KeventChanges(k, open, cl, i) ==
  IF i > Len(cl) THEN Done(k)
  ELSE LET c == cl[i] IN
       IF ~open[c.ident] THEN Failed(EBADF, k)
       ELSE IF "EV_ADD" \in c.flags
         THEN KeventChanges(
                [k EXCEPT ![c.ident][c.filter] =
                   [on |-> TRUE, flags |-> c.flags \ {"EV_ADD"},
                    udata |-> c.udata]],
                open, cl, i + 1)
         ELSE IF ~k[c.ident][c.filter].on THEN Failed(ENOENT, k)
              ELSE KeventChanges([k EXCEPT ![c.ident][c.filter] = NoKnote],
                                 open, cl, i + 1)

Kevent(k, open, hOK, cl) ==
  IF ~hOK THEN Failed(EBADF, k) ELSE KeventChanges(k, open, cl, 1)

\* the system call of ioevent_attach / ioevent_modify on the entries built
RegisterCall(b, k, open, hOK, cl) ==
  CASE b = "epoll" -> EpollCtl(k, open, hOK, cl[1])
    [] b = "kqueue" -> Kevent(k, open, hOK, cl)
    [] b = "port" -> PortCtl(k, open, hOK, cl[1])

\* ioevent_detach: epoll_ctl(EPOLL_CTL_DEL), port_dissociate, or "return 0"
\* (and, for comparison, a kqueue branch that submits an EV_DELETE)
DetachCall_KqueueDelete(b, k, open, hOK, fd) ==
  IF b = "kqueue"
    THEN Kevent(k, open, hOK, <<KevDelete(fd, "READ", 0)>>)
    ELSE RegisterCall(b, k, open, hOK, DetachEntries(b, fd))
DetachCall(b, k, open, hOK, fd) ==
  IF b = "kqueue" THEN Done(k)
  ELSE RegisterCall(b, k, open, hOK, DetachEntries(b, fd))

\* poll_fd names an open backend handle
HandleOK == poll_fd >= 0 /\ handleOpen

\* ------------------------------------- ioevent_attach / _modify / _detach
\* The caller does not use a poller whose ioevent_init reported failure.
\* Nor one it has destroyed.
Usable == pc = "inited" /\ initRet = 0 /\ destroys = 0

\* The caller's own record of fd: attached by a successful attach or modify,
\* until a successful detach or the close of fd. It attaches descriptors it
\* holds unattached and modifies those it holds attached.
Attached(fd) == bound[fd] # 0 /\ ~detached[fd]

ioevent_attach(fd, e, data) ==
  /\ Usable
  /\ ~Attached(fd)
  /\ ncalls < MaxCalls
  /\ ncalls' = ncalls + 1
  /\ LET cl == AttachEntries(backend, fd, e, data, extra_events)
         r == RegisterCall(backend, kern, fdOpen, HandleOK, cl)
     IN /\ submitted' = cl
        /\ kern' = r.kern
        /\ result' = r.ret
        /\ sysret' = r.ret
        /\ errno' = IF r.err # 0 THEN r.err ELSE errno
        /\ bound' = IF r.ret = 0 THEN [bound EXCEPT ![fd] = data] ELSE bound
        /\ detached' = IF r.ret = 0 THEN [detached EXCEPT ![fd] = FALSE]
                       ELSE detached
        /\ call' = [fd |-> fd, e |-> e, data |-> data, oserr |-> r.err,
                    nget |-> 0]
  /\ lastOp' = "attach"
  /\ UNCHANGED <<backend, auxVars, pc, pollerVars, resVars, envVars, slots,
                 delivered,
                 initRet, destroys, handleMade>>

ioevent_modify(fd, e, data) ==
  /\ Usable
  /\ Attached(fd)
  /\ ncalls < MaxCalls
  /\ ncalls' = ncalls + 1
  /\ LET cl == ModifyEntries(backend, fd, e, data, extra_events)
         r == RegisterCall(backend, kern, fdOpen, HandleOK, cl)
     IN /\ submitted' = cl
        /\ kern' = r.kern
        /\ result' = r.ret
        /\ sysret' = r.ret
        /\ errno' = IF r.err # 0 THEN r.err ELSE errno
        /\ bound' = IF r.ret = 0 THEN [bound EXCEPT ![fd] = data] ELSE bound
        /\ detached' = IF r.ret = 0 THEN [detached EXCEPT ![fd] = FALSE]
                       ELSE detached
        /\ call' = [fd |-> fd, e |-> e, data |-> data, oserr |-> r.err,
                    nget |-> 0]
  /\ lastOp' = "modify"
  /\ UNCHANGED <<backend, auxVars, pc, pollerVars, resVars, envVars, slots,
                 delivered,
                 initRet, destroys, handleMade>>

ioevent_detach(fd) ==
  /\ Usable
  /\ ncalls < MaxCalls
  /\ ncalls' = ncalls + 1
  /\ LET r == DetachCall(backend, kern, fdOpen, HandleOK, fd)
     IN /\ submitted' = DetachEntries(backend, fd)
        /\ kern' = r.kern
        /\ result' = r.ret
        /\ sysret' = r.ret
        /\ errno' = IF r.err # 0 THEN r.err ELSE errno
        /\ detached' = IF r.ret = 0 THEN [detached EXCEPT ![fd] = TRUE]
                       ELSE detached
        /\ call' = [NoCall EXCEPT !.fd = fd, !.oserr = r.err]
  /\ lastOp' = "detach"
  /\ UNCHANGED <<backend, auxVars, pc, pollerVars, resVars, envVars, slots,
                 delivered,
                 initRet, bound, destroys, handleMade>>

\* ------------------------------------------------------------ ioevent_poll
\* the ready records the kernel holds: one per descriptor (epoll, event
\* ports) or one per armed filter (kqueue), each with the registered data
ReadyItems(b, k, c) ==
  IF b = "kqueue"
    THEN {[fd |-> f, ev |-> {d}, data |-> k[f][d].udata] :
            <<f, d>> \in {x \in Fds \X Dirs :
                            k[x[1]][x[2]].on /\ x[2] \in c[x[1]]}}
    ELSE {[fd |-> f, ev |-> k[f].events \cap c[f], data |-> k[f].data] :
            f \in {g \in Fds : k[g].reg /\ k[g].events \cap c[g] # {}}}

\* the registration of a ready record is edge-triggered: the kernel reports
\* it once per transition, so it may be absent from a later batch
IsEdge(b, k, s) ==
  IF b = "kqueue"
    THEN \E d \in s.ev : "ET" \in k[s.fd][d].flags
    ELSE "ET" \in k[s.fd].events

LevelReady(b, k, c) == {s \in ReadyItems(b, k, c) : ~IsEdge(b, k, s)}

\* the batches a retrieval of at most max records may return: never more
\* than max, and a level-triggered ready record is left out only when the
\* batch is full
Batches(b, k, c, max) ==
  {S \in SUBSET ReadyItems(b, k, c) :
     /\ Cardinality(S) <= max
     /\ Cardinality(S) = max \/ LevelReady(b, k, c) \subseteq S}

\* the batches an interrupted retrieval may have written
PartialBatches(b, k, c, max) ==
  {S \in SUBSET ReadyItems(b, k, c) : Cardinality(S) <= max}

\* the maxevents / nevents / max argument: ioevent->size (and, for
\* comparison, a limit one past the buffer and one short of it)
PollMaxEvents_OffByOne == size + 1
PollMaxEvents_OneShort == size - 1
PollMaxEvents == size

\* ioevent->timeout after the retrieval call: epoll_wait gets the value,
\* kevent and port_getn a pointer to a timespec they only read (and, for
\* comparison, a call that counts the time waited off the timespec, as
\* select does on Linux)
TimeoutAfterWait_Consumed ==
  IF backend = "epoll" THEN timeout ELSE [tv_sec |-> 0, tv_nsec |-> 0]
TimeoutAfterWait == timeout

\* the call blocks when nothing is ready: timeout is not 0
Blocking ==
  IF backend = "epoll" THEN timeout # 0
  ELSE timeout.tv_sec # 0 \/ timeout.tv_nsec # 0

\* epoll_wait(poll_fd, events, size, timeout) and
\* kevent(poll_fd, NULL, 0, events, size, &timeout): the count of records
\* written, or -1 with errno EBADF, or -1 with errno EINTR when a signal
\* arrives while the call sleeps
WaitOutcomes(b, k, c, hOK, max) ==
  IF ~hOK THEN {[ret |-> -1, err |-> EBADF, got |-> {}]}
  ELSE {[ret |-> Cardinality(S), err |-> 0, got |-> S] :
          S \in Batches(b, k, c, max)}
       \cup (IF Blocking /\ LevelReady(b, k, c) = {}
               THEN {[ret |-> -1, err |-> EINTR, got |-> {}]}
               ELSE {})

\* port_getn(poll_fd, events, size, &nget, &timeout) with nget = 1 on entry:
\* 0 with nget the count written (at least one), or -1 with errno EBADF, or
\* -1 with a transient errno (ETIME when the timeout runs out, which a
\* timeout of 0 does at once; EINTR or EAGAIN only out of a call that
\* sleeps), whatever was written so far and nget either updated to that
\* count or left at 1 when nothing was written
PortGetnOutcomes(b, k, c, hOK, max) ==
  IF ~hOK THEN {[ret |-> -1, err |-> EBADF, nget |-> 1, got |-> {}]}
  ELSE {[ret |-> 0, err |-> 0, nget |-> Cardinality(S), got |-> S] :
          S \in {T \in Batches(b, k, c, max) : T # {}}}
       \cup {[ret |-> -1, err |-> e, nget |-> n, got |-> S] :
               <<e, n, S>> \in
                 {x \in TransientErrnos \X (0..max)
                          \X PartialBatches(b, k, c, max) :
                    /\ x[1] = ETIME \/ Blocking
                    /\ \/ x[2] = Cardinality(x[3])
                       \/ x[3] = {} /\ x[2] = 1}}

\* the result ioevent_poll computes from port_getn's return value, errno and
\* nget (and, for comparison, one that drops a partial batch)
PortResult_DropPartial(retval, err, nget) ==
  IF retval = 0 THEN nget
  ELSE IF err \in {EINTR, EAGAIN, ETIME} THEN 0 ELSE -1
PortResult(retval, err, nget) ==
  IF retval = 0 THEN nget
  ELSE IF err \in {EINTR, EAGAIN, ETIME}
         THEN (IF nget > 0 THEN nget ELSE 0)
         ELSE -1

\* a delivered event dissociates its descriptor from an event port
AfterDelivery(b, k, S) ==
  IF b = "port"
    THEN [f \in Fds |-> IF \E s \in S : s.fd = f THEN NoAssoc ELSE k[f]]
    ELSE k

\* the directions of fd some registration watches
Watched(b, k, f) ==
  IF b = "kqueue" THEN {d \in Dirs : k[f][d].on}
  ELSE IF k[f].reg THEN k[f].events \cap Dirs ELSE {}

\* what the descriptors' state can be when the kernel looks: any watched
\* direction may be ready (the others do not matter to the kernel)
Readiness(c) == \A f \in Fds : c[f] \subseteq Watched(backend, kern, f)

\* ioevent_poll(ioevent), c the descriptors' readiness during the call
ioevent_poll(c) ==
  /\ Usable
  /\ Readiness(c)
  /\ ready' = ReadyItems(backend, kern, c)
  /\ IF backend = "port"
       THEN \E o \in PortGetnOutcomes(backend, kern, c, HandleOK,
                                      PollMaxEvents) :
              /\ result' = PortResult(o.ret, o.err, o.nget)
              /\ sysret' = o.ret
              /\ errno' = IF o.err # 0 THEN o.err ELSE errno
              /\ slots' = o.got
              /\ delivered' = Cardinality(o.got)
              /\ kern' = AfterDelivery(backend, kern, o.got)
              /\ call' = [NoCall EXCEPT !.oserr = o.err, !.nget = o.nget]
       ELSE \E o \in WaitOutcomes(backend, kern, c, HandleOK,
                                  PollMaxEvents) :
              /\ result' = o.ret
              /\ sysret' = o.ret
              /\ errno' = IF o.err # 0 THEN o.err ELSE errno
              /\ slots' = o.got
              /\ delivered' = Cardinality(o.got)
              /\ kern' = kern
              /\ call' = [NoCall EXCEPT !.oserr = o.err]
  /\ timeout' = TimeoutAfterWait
  /\ lastOp' = "poll"
  /\ submitted' = <<>>
  /\ UNCHANGED <<backend, auxVars, pc, size, extra_events, poll_fd, events,
                 resVars, fdOpen, initRet, bound, detached, destroys, ncalls,
                 handleMade>>

\* ------------------------------------------------------------ environment
\* the owner closes fd: the kernel discards its registrations, and the
\* caller its record of fd
CloseFd(fd) ==
  /\ pc = "inited"
  /\ fdOpen[fd]
  /\ fdOpen' = [fdOpen EXCEPT ![fd] = FALSE]
  /\ kern' = [kern EXCEPT ![fd] = EmptyKern(backend)[fd]]
  /\ bound' = [bound EXCEPT ![fd] = 0]
  /\ detached' = [detached EXCEPT ![fd] = FALSE]
  /\ lastOp' = "close"
  /\ UNCHANGED <<backend, auxVars, pc, pollerVars, resVars, slots, errno,
                 result, sysret, initRet, submitted, delivered, destroys,
                 ncalls, handleMade, ready, call>>

\* ------------------------------------------------------------------- Next
Next ==
  \/ \E sz \in Sizes, t \in Timeouts, x \in ExtraFlagSets, h \in {-1, 3},
        m \in BOOLEAN, e \in BOOLEAN : ioevent_init(sz, t, x, h, m, e)
  \/ ioevent_destroy
  \/ \E fd \in Fds, e \in SUBSET Dirs, data \in Data :
        ioevent_attach(fd, e, data)
  \/ \E fd \in Fds, e \in SUBSET Dirs, data \in Data :
        ioevent_modify(fd, e, data)
  \/ \E fd \in Fds : ioevent_detach(fd)
  \/ \E c \in [Fds -> SUBSET Dirs] : ioevent_poll(c)
  \/ \E fd \in Fds : CloseFd(fd)

Spec == Init /\ [][Next]_vars

\* --------------------------------------------- the kernel's ready list
\* For the run of a poller over time the kernel keeps the ready records of
\* the backend handle in a list. A watched direction that becomes ready puts
\* its record at the tail (epoll and event ports hold one record per
\* descriptor, kqueue one per filter); a retrieval takes records from the
\* head; a level-triggered record that was reported goes back to the tail
\* while it is still ready; an event port dissociates what it delivers.
InList(fd, d) ==
  \E i \in 1..Len(rdlist) : rdlist[i].fd = fd /\ d \in rdlist[i].ev

RdRecord(b, k, q) ==
  [fd |-> q.fd, ev |-> q.ev,
   data |-> IF b = "kqueue" THEN k[q.fd][CHOOSE d \in q.ev : TRUE].udata
            ELSE k[q.fd].data]

RdRecords(b, k, q) == {RdRecord(b, k, q[i]) : i \in 1..Len(q)}

RECURSIVE RdWithout(_, _, _)
RdWithout(q, fd, d) ==
  IF q = <<>> THEN <<>>
  ELSE LET h == Head(q)
           t == RdWithout(Tail(q), fd, d)
       IN IF h.fd = fd /\ d \in h.ev
            THEN (IF h.ev = {d} THEN t
                  ELSE <<[h EXCEPT !.ev = @ \ {d}]>> \o t)
            ELSE <<h>> \o t

\* a watched direction of fd becomes ready
BecomeReady(fd, d) ==
  /\ Usable
  /\ d \in Watched(backend, kern, fd)
  /\ ~InList(fd, d)
  /\ rdlist' =
       IF backend # "kqueue" /\ \E i \in 1..Len(rdlist) : rdlist[i].fd = fd
         THEN [i \in 1..Len(rdlist) |->
                 IF rdlist[i].fd = fd
                   THEN [rdlist[i] EXCEPT !.ev = @ \cup {d}]
                   ELSE rdlist[i]]
         ELSE Append(rdlist, [fd |-> fd, ev |-> {d}])
  /\ lastOp' = "activity"
  /\ UNCHANGED <<backend, conv, pc, pollerVars, resVars, envVars, slots,
                 errno, handleMade, kern, result, sysret, initRet, submitted,
                 delivered, bound, detached, destroys, ncalls, call>>

\* a ready direction of fd is drained by its owner
Drain(fd, d) ==
  /\ Usable
  /\ InList(fd, d)
  /\ rdlist' = RdWithout(rdlist, fd, d)
  /\ lastOp' = "activity"
  /\ UNCHANGED <<backend, conv, pc, pollerVars, resVars, envVars, slots,
                 errno, handleMade, kern, result, sysret, initRet, submitted,
                 delivered, bound, detached, destroys, ncalls, call>>

\* what the retrieval call of ioevent_poll returns with the ready list q:
\* the first max records when there are any, else what the call returns
\* with nothing ready
RdOutcomes(b, k, q, hOK, max) ==
  LET n == IF Len(q) < max THEN Len(q) ELSE max
      nothing == [f \in Fds |-> {}]
  IN IF hOK /\ n > 0
       THEN {[ret |-> IF b = "port" THEN 0 ELSE n, err |-> 0, nget |-> n,
              got |-> RdRecords(b, k, SubSeq(q, 1, n)),
              rest |-> IF b = "port" THEN SubSeq(q, n + 1, Len(q))
                       ELSE SubSeq(q, n + 1, Len(q)) \o SubSeq(q, 1, n)]}
       ELSE {[ret |-> o.ret, err |-> o.err,
              nget |-> IF b = "port" THEN o.nget ELSE 0, got |-> {},
              rest |-> q] :
               o \in IF b = "port"
                       THEN PortGetnOutcomes(b, k, nothing, hOK, max)
                       ELSE WaitOutcomes(b, k, nothing, hOK, max)}

\* ioevent_poll(ioevent) with the kernel's ready list
ioevent_poll_rdlist ==
  /\ Usable
  /\ ready' = RdRecords(backend, kern, rdlist)
  /\ \E o \in RdOutcomes(backend, kern, rdlist, HandleOK, PollMaxEvents) :
       /\ result' = IF backend = "port"
                      THEN PortResult(o.ret, o.err, o.nget) ELSE o.ret
       /\ sysret' = o.ret
       /\ errno' = IF o.err # 0 THEN o.err ELSE errno
       /\ slots' = o.got
       /\ delivered' = Cardinality(o.got)
       /\ kern' = AfterDelivery(backend, kern, o.got)
       /\ call' = [NoCall EXCEPT !.oserr = o.err, !.nget = o.nget]
       /\ rdlist' = o.rest
  /\ timeout' = TimeoutAfterWait
  /\ lastOp' = "poll"
  /\ submitted' = <<>>
  /\ UNCHANGED <<backend, conv, pc, size, extra_events, poll_fd, events,
                 resVars, fdOpen, initRet, bound, detached, destroys, ncalls,
                 handleMade>>

\* A level-triggered poller in its caller's event loop: the loop calls
\* ioevent_poll again after every batch, which is the weak fairness of
\* ioevent_poll_rdlist; nothing is assumed of the descriptors.
NextFair ==
  \/ \E sz \in Sizes, t \in Timeouts : ioevent_init(sz, t, {}, 3, TRUE, FALSE)
  \/ \E fd \in Fds, e \in SUBSET Dirs : ioevent_attach(fd, e, 1)
  \/ \E fd \in Fds, d \in Dirs : BecomeReady(fd, d)
  \/ \E fd \in Fds, d \in Dirs : Drain(fd, d)
  \/ ioevent_poll_rdlist

SpecFair == Init /\ [][NextFair]_vars /\ WF_vars(ioevent_poll_rdlist)

\* ------------------------------------------------------ kqueue_ev_convert
\* the filters and flags of <sys/event.h> a struct kevent may carry
KqFilters == {"EVFILT_READ", "EVFILT_WRITE", "EVFILT_AIO", "EVFILT_VNODE",
              "EVFILT_PROC", "EVFILT_SIGNAL", "EVFILT_TIMER"}
KqFlags == {"EV_ADD", "EV_CLEAR", "EV_ONESHOT", "EV_EOF", "EV_ERROR"}

\* int kqueue_ev_convert(int16_t event, uint16_t flags): "r = KPOLLIN",
\* "r = KPOLLOUT" or "r = 0" by the filter, then "r |= KPOLLHUP" when
\* flags & EV_EOF (and, for comparison, one that looks for EV_EOF only on a
\* read filter)
kqueue_ev_convert_EofOnReadOnly(event, flags) ==
  IF event = "EVFILT_READ"
    THEN (IF "EV_EOF" \in flags THEN {"KPOLLIN", "KPOLLHUP"} ELSE {"KPOLLIN"})
    ELSE IF event = "EVFILT_WRITE" THEN {"KPOLLOUT"} ELSE {}
kqueue_ev_convert(event, flags) ==
  LET r == IF event = "EVFILT_READ" THEN {"KPOLLIN"}
           ELSE IF event = "EVFILT_WRITE" THEN {"KPOLLOUT"}
           ELSE {}
  IN IF "EV_EOF" \in flags THEN r \cup {"KPOLLHUP"} ELSE r

\* a caller about to decode one struct kevent
InitConvert ==
  /\ backend = "kqueue"
  /\ NewPoller
  /\ rdlist = <<>>
  /\ conv \in [pc : {"call"}, event : KqFilters, flags : SUBSET KqFlags,
               r : {{}}]

ConvertCall ==
  /\ conv.pc = "call"
  /\ conv' = [conv EXCEPT !.pc = "ret",
                          !.r = kqueue_ev_convert(conv.event, conv.flags)]
  /\ UNCHANGED <<ioVars, rdlist>>

SpecConvert == InitConvert /\ [][ConvertCall]_vars

\* ============================================================= properties

\* C1: on every backend, a successful ioevent_poll of a poller of capacity
\* size > 0 returns a count in 0..size and fills at most size slots.
C1_PollWithinCapacity ==
  lastOp = "poll" /\ result # -1 =>
    /\ size > 0
    /\ result \in 0..size
    /\ Cardinality(slots) <= size

\* C1 witness: more records were ready than the capacity and the poll
\* returned a full batch.
C1_Witness ==
  /\ lastOp = "poll"
  /\ Cardinality(ready) > size
  /\ result = size
  /\ Cardinality(slots) = size

\* C2: after an ioevent_init that returned 0, however often ioevent_destroy
\* is called, the buffer was freed exactly once, the backend handle (when one
\* was created) was closed exactly once, events is NULL and poll_fd is -1:
\* the second call changes nothing.
C2_DestroyIdempotent ==
  initRet = 0 /\ destroys >= 1 =>
    /\ freeCount = 1
    /\ closeCount = (IF handleMade THEN 1 ELSE 0)
    /\ events = "NULL"
    /\ poll_fd = -1
    /\ ~bufLive
    /\ ~handleOpen

\* C2 witness: a poller with a handle and a buffer, destroyed twice.
C2_Witness ==
  /\ initRet = 0
  /\ handleMade
  /\ destroys = 2
  /\ freeCount = 1
  /\ closeCount = 1

\* C3: when ioevent_init fails after the backend handle was created, the
\* handle is closed before it returns: no handle is open after a failed
\* ioevent_init.
C3_NoOpenHandleAfterFailedInit ==
  lastOp = "init" /\ initRet # 0 => ~handleOpen

\* C4: ioevent_init returns 0 only if poll_fd is a valid handle and the
\* buffer was allocated; a failed handle creation makes it return non-zero.
C4_InitSuccessMeansHandleAndBuffer ==
  lastOp = "init" /\ initRet = 0 => poll_fd >= 0 /\ events # "NULL"

\* C5: after ioevent_detach(fd) returned 0, no later ioevent_poll returns a
\* ready slot for fd (until fd is attached again), on every backend.
C5_NoSlotAfterDetach ==
  lastOp = "poll" => \A s \in slots : ~detached[s.fd]

\* C6: on the kqueue backend ioevent_detach returns 0 for every descriptor and
\* every poller state.
C6_KqueueDetachSucceeds ==
  backend = "kqueue" /\ lastOp = "detach" => result = 0

\* C6 witness: a kqueue detach of a descriptor that is closed, and one of a
\* descriptor that was never attached, have returned 0.
C6_Witness ==
  /\ backend = "kqueue"
  /\ lastOp = "detach"
  /\ result = 0
  /\ \E f \in Fds : ~fdOpen[f] /\ detached[f]
  /\ \E f \in Fds : fdOpen[f] /\ detached[f] /\ bound[f] = 0

\* the flags of a submitted change entry, and whether it registers interest
EntryFlags(b, c) == IF b = "kqueue" THEN c.flags ELSE c.events
IsRegistration(b, c) ==
  IF b = "kqueue" THEN "EV_ADD" \in c.flags
  ELSE c.op \in {"EPOLL_CTL_ADD", "EPOLL_CTL_MOD", "port_associate"}

\* C7: on every backend, every registration that ioevent_attach or
\* ioevent_modify submits carries the poller's extra_events in its flags.
C7_ExtraEventsInEveryRegistration ==
  lastOp \in {"attach", "modify"} /\ result = 0 =>
    \A i \in 1..Len(submitted) :
      IsRegistration(backend, submitted[i]) =>
        extra_events \subseteq EntryFlags(backend, submitted[i])

\* C8: ioevent_poll returns -1 only when no event was obtained in the call and
\* the failure is not a transient one (EINTR, EAGAIN, ETIME), on every
\* backend.
C8_HardErrorOnlyForHardFailure ==
  lastOp = "poll" /\ result = -1 =>
    delivered = 0 /\ errno \notin TransientErrnos

\* C9: when the retrieval call fails with EINTR, EAGAIN or ETIME after k >= 1
\* events were obtained, ioevent_poll returns k.
C9_PartialBatchReturned ==
  lastOp = "poll" /\ sysret # 0 /\ errno \in TransientErrnos /\ delivered >= 1
    => result = delivered

\* C9 witness: port_getn failed with ETIME after writing two events and
\* ioevent_poll returned 2.
C9_Witness ==
  /\ backend = "port"
  /\ lastOp = "poll"
  /\ sysret = -1
  /\ errno = ETIME
  /\ delivered = 2
  /\ result = 2

\* C10: every slot ioevent_poll returns for fd carries the user data of the
\* most recent successful ioevent_attach or ioevent_modify of fd.
C10_SlotCarriesBoundData ==
  lastOp = "poll" => \A s \in slots : s.data = bound[s.fd]

\* a step that is a call of ioevent_modify
ModifyStep == lastOp' = "modify" /\ ncalls' = ncalls + 1

\* C11: on every backend, an ioevent_modify of an attached descriptor with
\* the mask it already has armed returns 0 and leaves its armed directions
\* unchanged, for every current mask within {READ, WRITE}.
C11_ModifySameMaskIdempotent ==
  [][ModifyStep /\ call'.e = Watched(backend, kern, call'.fd) =>
       /\ result' = 0
       /\ Watched(backend, kern', call'.fd) =
            Watched(backend, kern, call'.fd)]_vars

\* C12: on every backend, after ioevent_modify(fd, newMask) of an attached
\* descriptor the armed directions of fd are exactly newMask, for every pair
\* (oldMask, newMask): a direction newly asked for is armed, and a dropped
\* one is no longer armed, so a later poll does not report it.
C12_ModifyArmsExactlyNewMask ==
  lastOp = "modify" => Watched(backend, kern, call.fd) = call.e

\* C13: kqueue_ev_convert returns the readable bit exactly for a READ
\* filter, the writable bit exactly for a WRITE filter, neither for any
\* other filter, the hang-up bit exactly when the EOF flag is set, whatever
\* the filter, and no other bit.
C13_ConvertMapsFilterAndEof ==
  conv.pc = "ret" =>
    /\ "KPOLLIN" \in conv.r <=> conv.event = "EVFILT_READ"
    /\ "KPOLLOUT" \in conv.r <=> conv.event = "EVFILT_WRITE"
    /\ "KPOLLHUP" \in conv.r <=> "EV_EOF" \in conv.flags
    /\ conv.r \subseteq {"KPOLLIN", "KPOLLOUT", "KPOLLHUP"}

\* C13 witness: a timer event with EV_EOF among its flags was decoded to the
\* hang-up bit alone.
C13_Witness ==
  /\ conv.pc = "ret"
  /\ conv.event = "EVFILT_TIMER"
  /\ {"EV_EOF", "EV_CLEAR"} \subseteq conv.flags
  /\ conv.r = {"KPOLLHUP"}

\* the last call returned an error: ioevent_init, ioevent_attach,
\* ioevent_modify and ioevent_detach return 0 on success, ioevent_poll a
\* count
ErrorReturned ==
  \/ lastOp \in {"init", "attach", "modify", "detach"} /\ result # 0
  \/ lastOp = "poll" /\ result < 0

\* C14 as claimed: every error value returned by ioevent_init,
\* ioevent_attach, ioevent_modify, ioevent_detach and ioevent_poll is the
\* errno of the system call that failed (ENOMEM for an allocation that set
\* none), not a generic failure marker.
C14_ErrorReturnIsErrno ==
  ErrorReturned => result = (IF call.oserr # 0 THEN call.oserr ELSE ENOMEM)

\* C14 as amended: an error returned by ioevent_init is the errno of the
\* failed allocation, or ENOMEM when errno is 0; an error returned by
\* ioevent_attach, ioevent_modify, ioevent_detach or ioevent_poll is the
\* marker -1, returned only when the system call failed, and the errno that
\* system call set is still in errno when the function returns.
C14_ErrorLeavesErrno ==
  /\ lastOp = "init" /\ result # 0 =>
       result = (IF call.oserr # 0 THEN call.oserr ELSE ENOMEM)
  /\ lastOp # "init" /\ ErrorReturned =>
       /\ result = -1
       /\ sysret = -1
       /\ call.oserr # 0
       /\ errno = call.oserr

\* C14 witness: an attach of a closed descriptor through a valid handle has
\* returned -1 and errno is the EBADF the system call set.
C14_Witness ==
  /\ lastOp = "attach"
  /\ HandleOK
  /\ result = -1
  /\ errno = EBADF
  /\ call.oserr = EBADF

\* the last step was a poll that reported direction d of fd
Reported(fd, d) ==
  lastOp = "poll" /\ \E r \in slots : r.fd = fd /\ d \in r.ev

\* C15: on a level-triggered poller, an ioevent_poll called with more ready
\* records than the capacity reports exactly capacity of them, and every
\* ready direction of an attached descriptor is reported by some later
\* ioevent_poll unless it stops being ready: none is starved.
C15_OverfullBatchAndNoStarvation ==
  /\ [][lastOp' = "poll" /\ Len(rdlist) > size =>
          /\ result' = size
          /\ Cardinality(slots') = size
          /\ slots' \subseteq RdRecords(backend, kern, rdlist)]_vars
  /\ \A fd \in Fds, d \in Dirs :
       InList(fd, d) ~> (Reported(fd, d) \/ ~InList(fd, d))

\* C15 witness: a poll found more ready records than the capacity, filled
\* every slot, and the record at the head of the ready list is one it left
\* out.
C15_Witness ==
  /\ lastOp = "poll"
  /\ Cardinality(ready) > size
  /\ result = size
  /\ Len(rdlist) > size
  /\ RdRecord(backend, kern, rdlist[1]) \notin slots
  /\ RdRecord(backend, kern, rdlist[Len(rdlist)]) \in slots

\* C16: on every backend, an ioevent_poll of a poller with a valid handle
\* and timeout 0 that finds no registered descriptor ready returns 0, not an
\* error and not a positive count, also when port_getn fails with ETIME.
C16_ZeroTimeoutNothingReady ==
  lastOp = "poll" /\ HandleOK /\ ~Blocking /\ ready = {} => result = 0

\* C17: on kqueue, ioevent_attach hands kevent one change list holding
\* exactly one EV_ADD entry for each direction of the mask and no entry, in
\* particular no EV_DELETE, for a direction that is not in it: 0, 1 or 2
\* entries, as many as the mask has directions.
C17_KqueueAttachAddsOnly ==
  backend = "kqueue" /\ lastOp = "attach" =>
    /\ Len(submitted) = Cardinality(call.e \cap Dirs)
    /\ \A d \in call.e \cap Dirs :
         \E i \in 1..Len(submitted) : submitted[i].filter = d
    /\ \A i \in 1..Len(submitted) :
         /\ submitted[i].ident = call.fd
         /\ submitted[i].filter \in call.e
         /\ "EV_ADD" \in submitted[i].flags
         /\ "EV_DELETE" \notin submitted[i].flags

\* C17 witness: a kqueue attach for WRITE alone submitted the single entry
\* that adds the WRITE filter.
C17_Witness ==
  /\ backend = "kqueue"
  /\ lastOp = "attach"
  /\ call.e = {"WRITE"}
  /\ Len(submitted) = 1
  /\ submitted[1].filter = "WRITE"
  /\ "EV_ADD" \in submitted[1].flags

\* C18: on kqueue, ioevent_modify always hands kevent exactly two entries,
\* for READ and for WRITE, each an EV_ADD with extra_events and the new user
\* data when the direction is in the new mask and an EV_DELETE when it is
\* not, and the whole list takes effect: afterwards no direction outside the
\* new mask is armed and every direction inside it is armed with the new
\* user data, also when an EV_DELETE names a direction that was not armed.
C18_KqueueModifyTakesEffect ==
  backend = "kqueue" /\ lastOp = "modify" =>
    /\ Len(submitted) = 2
    /\ {submitted[1].filter, submitted[2].filter} = Dirs
    /\ \A i \in 1..2 :
         /\ submitted[i].ident = call.fd
         /\ submitted[i].flags =
              (IF submitted[i].filter \in call.e
                 THEN {"EV_ADD"} \cup extra_events ELSE {"EV_DELETE"})
         /\ submitted[i].udata = call.data
    /\ \A d \in Dirs :
         IF d \in call.e
           THEN kern[call.fd][d].on /\ kern[call.fd][d].udata = call.data
           ELSE ~kern[call.fd][d].on

\* C19: a call of ioevent_attach, ioevent_modify, ioevent_detach or
\* ioevent_poll leaves size, timeout, extra_events, poll_fd and the buffer
\* pointer as they were, so after any sequence of these calls they have the
\* values ioevent_init set and every poll uses the configured timeout and
\* capacity.
C19_CallsKeepConfiguration ==
  [][lastOp' \in {"attach", "modify", "detach", "poll"} =>
       /\ size' = size
       /\ timeout' = timeout
       /\ extra_events' = extra_events
       /\ poll_fd' = poll_fd
       /\ events' = events]_vars

\* C19 witness: after two registration calls and a poll that blocked and
\* returned a batch, the poller still has a configuration ioevent_init can
\* have set.
C19_Witness ==
  /\ lastOp = "poll"
  /\ ncalls = 2
  /\ result > 0
  /\ size = 2
  /\ timeout = TimeoutField(backend, 1500)
  /\ extra_events = {"ET"}
  /\ poll_fd = 3
  /\ events = "buf"

\* C20: the count ioevent_poll returns never exceeds the number of events
\* the backend wrote into the buffer in that call; on event ports, when
\* port_getn fails with EINTR, EAGAIN or ETIME having written nothing, also
\* when it leaves nget at its initial 1, ioevent_poll returns 0 and not 1.
C20_CountWithinEventsWritten ==
  lastOp = "poll" =>
    /\ result <= delivered
    /\ backend = "port" /\ sysret # 0 /\ errno \in TransientErrnos
         /\ delivered = 0 => result = 0

====
